---- MODULE Spec2Model ----
(***************************************************************************)
(* The pooled async-h1 client of http-client (src/src/h1/mod.rs): the      *)
(* H1Client with its two DashMap pool registries, the deadpool Pool that   *)
(* each registry entry holds, the connection managers' create / recycle    *)
(* (src/src/h1/tls.rs) and H1Client::send, run by several concurrent       *)
(* callers on a multi-threaded executor.  One action is one step of send   *)
(* between two points where another thread or task can interleave: a       *)
(* DashMap operation, a deadpool operation, or an await.                   *)
(***************************************************************************)
EXTENDS Integers, Sequences, FiniteSets, TLC

\* ------------------------------------------------------------------ bounds
NCalls == 2      \* concurrent send calls on the one client
NAddrs == 2      \* distinct socket addresses the resolver can return
MaxLimit == 2    \* largest max_concurrent_connections a client is built with
NShards == 1     \* shards of a DashMap (a key's shard decides which lock it takes)
MaxWait == 2     \* longest time, in units of the clock, a create is watched for
MaxValues == 2   \* most values one header name of a request carries
MaxChunks == 3   \* most data frames a response body arrives in

\* mod.rs:34
DEFAULT_MAX_CONCURRENT_CONNECTIONS == 50

Calls == 1..NCalls
Addrs == 1..NAddrs
Schemes == {"http", "https", "ftp", "mailto"}
ExplicitPorts == {8080}   \* the ports a URL names explicitly
NoHost == "none"
Hosts == {"a.test"}
None == <<>>          \* Option::None; Some(x) is <<x>>
Some(x) == <<x>>

VARIABLES
    tlsFeature,   \* cfg!(any(feature = "native-tls", feature = "rustls"))
    maxConns,     \* H1Client.max_concurrent_connections
    http_pools,   \* H1Client.http_pools : address -> Pool instance, a partial map
    https_pools,  \* H1Client.https_pools
    pools,        \* every Pool instance ever constructed, by instance number
    conns,        \* every connection ever created, by connection number
    pc,           \* where each send call stands
    req,          \* the request of each send call
    idx,          \* the loop index of each send call (1-based position in addrs)
    pool,         \* the Pool a call's pool_ref / pool handle designates
    guard,        \* the DashMap Ref (shard read guard) a call holds
    stream,       \* the Object (checked-out connection) a call holds
    outcome,      \* what send returned to its caller
    tried,        \* history: the addresses on which the call began pool.get()
    failed,       \* history: the addresses for which pool.get() returned Err
    exchanged,    \* history: what each client::connect of the call returned
    addrs,        \* the addrs local of each send call (mod.rs:162)
    asked,        \* history: whether the call ran Url::socket_addrs
    config,       \* H1Client.config : Option<Config>
    elapsed,      \* the time the create of each call has been running
    cfgcall,      \* how the last update_config / override_config call ended
    hyper         \* the HyperClient::send call: its request, response, position

vars == <<tlsFeature, maxConns, http_pools, https_pools, pools, conns, pc, req,
          idx, pool, guard, stream, outcome, tried, failed, exchanged, addrs,
          asked, config, elapsed, cfgcall, hyper>>

\* ------------------------------------------------------------- requests
\* The candidate lists the resolver can return: addresses in some order,
\* none repeated.
AddrLists ==
    {s \in UNION {[1..n -> Addrs] : n \in 0..NAddrs} :
        \A i, j \in DOMAIN s : i # j => s[i] # s[j]}

\* A request as send sees it: the URL's scheme, host (host_str()) and explicit
\* port (port()), and what the resolver answers for the host (resolved = FALSE:
\* an Err; else the IP addresses ips).  A URL with no host has nothing to
\* resolve; the requests for which the resolver is never asked, or fails, are
\* told apart by nothing else.
Urls ==
    {r \in [scheme : Schemes, host : Hosts \cup {NoHost},
            port : {None} \cup {Some(n) : n \in ExplicitPorts},
            resolved : BOOLEAN, ips : AddrLists] :
        /\ (r.host = NoHost => ~r.resolved)
        /\ (~r.resolved => r.ips = <<>> /\ r.port = None)
        /\ (r.scheme \notin {"http", "https"} => ~r.resolved)}

\* The requests of the concurrent runs: their URLs name no port, so that the
\* socket addresses of a scheme differ by IP address only.
Requests == {r \in Urls : r.port = None}

NoRequest == [scheme |-> "ftp", host |-> NoHost, port |-> None, resolved |-> FALSE,
              ips |-> <<>>]

\* ------------------------------------------------------------- outcomes
NoOutcome == [kind |-> "none", status |-> 0, msg |-> "", at |-> None]
Response(a) == [kind |-> "response", status |-> 0, msg |-> "", at |-> a]
Err(status, msg, a) == [kind |-> "error", status |-> status, msg |-> msg, at |-> a]
Panicked == [kind |-> "panic", status |-> 0, msg |-> "attempt to subtract with overflow", at |-> None]
Cancelled == [kind |-> "cancelled", status |-> 0, msg |-> "", at |-> None]

\* ---------------------------------------------------- the client's fields
\* The registry send uses for a scheme (mod.rs:175-231: the match on scheme).
Registry(scheme) == IF scheme = "http" THEN http_pools ELSE https_pools

\* The shard of a DashMap that holds a key: one lock per shard.
ShardOf(a) == (a[1] + a[2]) % NShards

\* A slip of DefaultPort: one default for both schemes.
DefaultPortPlainOnly(scheme) ==
    IF scheme \in {"http", "https"} THEN Some(80) ELSE None
\* mod.rs:163-167: the closure send gives socket_addrs for the default port.
DefaultPort(scheme) ==
    CASE scheme = "http" -> Some(80)
      [] scheme = "https" /\ tlsFeature -> Some(443)
      [] OTHER -> None

\* mod.rs:162  req.url().socket_addrs(default_port): Err (None here) without a
\* host, without a port (neither explicit nor default) or when the resolver
\* fails; else every address the resolver gave, each with the URL's port or,
\* when it names none, the default port.
socket_addrs(r) ==
    LET port == IF r.port # None THEN r.port ELSE DefaultPort(r.scheme)
    IN IF r.host = NoHost \/ port = None \/ ~r.resolved
       THEN None
       ELSE Some([i \in 1..Len(r.ips) |-> <<r.ips[i], port[1]>>])

\* The socket addresses send can meet.
SocketAddr == Addrs \X ({80, 443} \cup ExplicitPorts)

\* The address of the current loop iteration (mod.rs:172).
CurAddr(c) == addrs[c][idx[c]]

\* mod.rs:173  let has_another_addr = idx != max_addrs_idx;
has_another_addr(c) == idx[c] # Len(addrs[c])

\* --------------------------------------------------------- the Pool
\* Pool::new(manager, max_size): no object, every permit free.  The manager
\* keeps the address (and, for TLS, the host name) it was built with.
PoolNew(scheme, a, host, max) ==
    [scheme |-> scheme, addr |-> a, host |-> host, max_size |-> max,
     permits |-> max, idle |-> <<>>, size |-> 0, creates |-> 0]

\* A slip of NewPool: the Pool is built one connection too large.
NewPoolOversized(scheme, a, host) == PoolNew(scheme, a, host, maxConns + 1)
\* mod.rs:180-184 / 208-212: the manager and the Pool send builds for an address.
NewPool(scheme, a, host) ==
    PoolNew(scheme, a, IF scheme = "https" THEN host ELSE NoHost, maxConns)

\* Dropping an Object: it goes to the back of its Pool's queue and its permit
\* is given back.
PoolReturn(ps, k) ==
    [ps EXCEPT ![conns[k].pool] =
        [@ EXCEPT !.idle = Append(@, k), !.permits = @ + 1]]

\* A slip of Discard: the destroyed Object still counts.
DiscardKeepsCount(ps, p) == [ps EXCEPT ![p] = [@ EXCEPT !.idle = Tail(@)]]
\* The Object at the head of the queue failed recycle: it is destroyed and no
\* longer counts toward the Pool's size.
Discard(ps, p) == [ps EXCEPT ![p] = [@ EXCEPT !.idle = Tail(@), !.size = @ - 1]]

\* A get that ends without an Object gives its permit back.
PoolGiveUp(ps, p) == [ps EXCEPT ![p] = [@ EXCEPT !.permits = @ + 1]]

\* ------------------------------------------------------ the managers
\* What a non-blocking poll_read of an idle connection can find: Pending,
\* Ready(Ok(0)), Ready(Err(_)), Ready(Ok(n)) with n > 0.
Probes == {"pending", "eof", "error", "data"}

\* Slips of TlsRecycle: a read of 0 bytes taken for health, and Pending taken
\* for an error.
RecycleIgnoresEof(probe, nodelay) == nodelay /\ probe # "error"
RecycleOnlyOnData(probe, nodelay) == nodelay /\ probe = "data"
\* tls.rs:86-110 TlsConnection::recycle: set_nodelay failing is an error; then
\* a read error and a read of 0 bytes (EOF) are errors; everything else
\* (Pending, and Ready(Ok(n)) with n > 0) is Ok.
TlsRecycle(probe, nodelay) == nodelay /\ probe \notin {"error", "eof"}

\* TcpConnection::recycle (h1/tcp.rs): error, EOF and unexpected data are
\* Unhealthy; nothing to read is healthy; tcpNoDelay is applied again.
TcpRecycle(probe, nodelay) == nodelay /\ probe = "pending"

\* The recycle of the manager of a Pool, on connection k.
Recycle(scheme, k) ==
    IF scheme = "https" THEN TlsRecycle(conns[k].probe, conns[k].nodelay)
    ELSE TcpRecycle(conns[k].probe, conns[k].nodelay)

\* The connections callers hold, and those of one Pool instance.
Held == {k \in 1..Len(conns) : \E c \in Calls : stream[c] = Some(k)}
CheckedOut(p) == {k \in Held : conns[k].pool = p}

\* ------------------------------------------------------------------ Init
\* config.rs:8-36 Config, as far as the pooled client is concerned:
\* max_connections_per_host (config.rs:102: 50 unless set), timeout, in
\* units of the clock, tcp_no_delay and http_keep_alive.
Configs ==
    [max_connections_per_host : 0..MaxLimit \cup {50}, timeout : {None, Some(1)},
     tcp_no_delay : BOOLEAN, http_keep_alive : BOOLEAN]

\* mod.rs:99-108 H1Client::new()
new ==
    /\ maxConns = DEFAULT_MAX_CONCURRENT_CONNECTIONS
    /\ config = None

\* mod.rs:111-120 H1Client::with_max_connections(max)
with_max_connections(max) ==
    /\ maxConns = max
    /\ config = None

\* mod.rs:244-256 impl From<C: Into<Config>> for H1Client
from(cfg) ==
    /\ maxConns = DEFAULT_MAX_CONCURRENT_CONNECTIONS
    /\ config = Some(cfg)

\* No HyperClient::send call has been made.
NoHyperCall == [pc |-> "idle"]

\* The Config the managers work with: the client's, or Config::new()
\* (config.rs:97-110: tcp_no_delay false) when it has none.
TcpNoDelay == IF config = None THEN FALSE ELSE config[1].tcp_no_delay

\* mod.rs:142 req.insert_header("Connection", "keep-alive"): the Connection
\* header of the request send works on, whatever request it was given.
ConnectionHeader(r) == "keep-alive"

\* A slip of SetNoDelay: the option is left as it is.
KeepNoDelay(cs, k) == cs
\* tls.rs:80 / tls.rs:90-97 set_nodelay(self.config.tcp_no_delay), done.
SetNoDelay(cs, k) == [cs EXCEPT ![k] = [@ EXCEPT !.no_delay = TcpNoDelay]]

\* A client nobody has used: empty registries, no call issued.
Fresh ==
    /\ http_pools = <<>>
    /\ https_pools = <<>>
    /\ pools = <<>>
    /\ conns = <<>>
    /\ pc = [c \in Calls |-> "idle"]
    /\ req = [c \in Calls |-> NoRequest]
    /\ idx = [c \in Calls |-> 0]
    /\ pool = [c \in Calls |-> None]
    /\ guard = [c \in Calls |-> None]
    /\ stream = [c \in Calls |-> None]
    /\ outcome = [c \in Calls |-> NoOutcome]
    /\ tried = [c \in Calls |-> <<>>]
    /\ failed = [c \in Calls |-> <<>>]
    /\ exchanged = [c \in Calls |-> <<>>]
    /\ addrs = [c \in Calls |-> <<>>]
    /\ asked = [c \in Calls |-> FALSE]
    /\ elapsed = [c \in Calls |-> 0]
    /\ cfgcall = None
    /\ hyper = NoHyperCall

\* The client of the concurrent runs is built by with_max_connections.
Init ==
    /\ tlsFeature \in BOOLEAN
    /\ \E max \in 0..MaxLimit : with_max_connections(max)
    /\ Fresh

\* A client built by any of the constructors.
ConfigInit ==
    /\ tlsFeature \in BOOLEAN
    /\ \/ new
       \/ \E max \in 0..MaxLimit : with_max_connections(max)
       \/ \E cfg \in Configs : from(cfg)
    /\ Fresh

\* ------------------------------------------------------------- send
\* mod.rs:152-154: the scheme test.
SupportedScheme(scheme) == scheme = "http" \/ (scheme = "https" /\ tlsFeature)

\* mod.rs:144-160: the host (only when TLS is compiled in), then the scheme.
\* NoOutcome: send goes on to socket_addrs.
Validate(r) ==
    IF tlsFeature /\ r.host = NoHost THEN Err(400, "missing hostname", None)
    ELSE IF ~SupportedScheme(r.scheme) THEN Err(400, "invalid url scheme", None)
    ELSE NoOutcome

\* send returns o: every local of the call is dropped.
Return(c, o) ==
    /\ pc' = [pc EXCEPT ![c] = "done"]
    /\ outcome' = [outcome EXCEPT ![c] = o]
    /\ guard' = [guard EXCEPT ![c] = None]
    /\ pool' = [pool EXCEPT ![c] = None]

\* A slip of Reject: the socket addresses are computed before the checks.
ResolveThenReject(c, o) ==
    /\ Return(c, o)
    /\ asked' = [asked EXCEPT ![c] = TRUE]
    /\ UNCHANGED <<idx, addrs>>
\* mod.rs:148 / 155-158: the early return of a failed check.
Reject(c, o) ==
    /\ Return(c, o)
    /\ UNCHANGED <<idx, addrs, asked>>

\* mod.rs:141-173: send up to the first loop iteration.  With no address,
\* addrs.len() - 1 overflows: a panic with overflow checks, a wrap without
\* (the loop body then never runs and line 236 is reached).
Start(c, r) ==
    /\ pc[c] = "idle"
    /\ req' = [req EXCEPT ![c] = r]
    /\ IF Validate(r) # NoOutcome
       THEN Reject(c, Validate(r))
       ELSE /\ asked' = [asked EXCEPT ![c] = TRUE]
            /\ IF socket_addrs(r) = None
               THEN /\ Return(c, Err(500, "socket_addrs", None))
                    /\ UNCHANGED <<idx, addrs>>
               ELSE /\ addrs' = [addrs EXCEPT ![c] = socket_addrs(r)[1]]
                    /\ IF socket_addrs(r)[1] = <<>>
                       THEN /\ \E o \in {Panicked,
                                         Err(400, "missing valid address", None)} :
                                  Return(c, o)
                            /\ idx' = idx
                       ELSE /\ pc' = [pc EXCEPT ![c] = "lookup"]
                            /\ idx' = [idx EXCEPT ![c] = 1]
                            /\ UNCHANGED <<outcome, guard, pool>>
    /\ UNCHANGED <<hyper, cfgcall, tlsFeature, maxConns, http_pools, https_pools, pools, conns,
                   stream, tried, failed, exchanged, config, elapsed>>

\* A caller issues a send call.
Begin(c) == \E r \in Requests : Start(c, r)

\* mod.rs:177 / 205  self.http_pools.get(&addr): Some(pool_ref) holds the
\* shard's read guard; None holds nothing.
Lookup(c) ==
    /\ pc[c] = "lookup"
    /\ LET reg == Registry(req[c].scheme)
           a == CurAddr(c)
       IN IF a \in DOMAIN reg
          THEN /\ pool' = [pool EXCEPT ![c] = Some(reg[a])]
               /\ guard' = [guard EXCEPT ![c] = Some(<<req[c].scheme, ShardOf(a)>>)]
               /\ pc' = [pc EXCEPT ![c] = "clone"]
          ELSE /\ pc' = [pc EXCEPT ![c] = "insert"]
               /\ UNCHANGED <<pool, guard>>
    /\ UNCHANGED <<hyper, cfgcall, tlsFeature, maxConns, http_pools, https_pools, pools, conns,
                   req, idx, stream, outcome, tried, failed, exchanged,
                   addrs, asked, config, elapsed>>

\* DashMap::insert(addr, pool): the shard's write lock, which waits for every
\* guard on the shard; the new value replaces an entry already there.
RegistryInsert(reg, a, p) == [x \in DOMAIN reg \cup {a} |-> IF x = a THEN p ELSE reg[x]]

\* mod.rs:180-185 / 208-213: build the manager and the Pool, insert it.
Insert(c) ==
    /\ pc[c] = "insert"
    /\ LET a == CurAddr(c)
           s == req[c].scheme
           p == Len(pools) + 1
       IN /\ \A d \in Calls : guard[d] # Some(<<s, ShardOf(a)>>)
          /\ pools' = Append(pools, NewPool(s, a, req[c].host))
          /\ IF s = "http"
             THEN /\ http_pools' = RegistryInsert(http_pools, a, p)
                  /\ UNCHANGED https_pools
             ELSE /\ https_pools' = RegistryInsert(https_pools, a, p)
                  /\ UNCHANGED http_pools
    /\ pc' = [pc EXCEPT ![c] = "reget"]
    /\ UNCHANGED <<hyper, cfgcall, tlsFeature, maxConns, conns, req, idx, pool, guard, stream,
                   outcome, tried, failed, exchanged,
                   addrs, asked, config, elapsed>>

\* mod.rs:186 / 214  self.http_pools.get(&addr).unwrap()
ReGet(c) ==
    /\ pc[c] = "reget"
    /\ LET reg == Registry(req[c].scheme)
           a == CurAddr(c)
       IN IF a \in DOMAIN reg
          THEN /\ pool' = [pool EXCEPT ![c] = Some(reg[a])]
               /\ guard' = [guard EXCEPT ![c] = Some(<<req[c].scheme, ShardOf(a)>>)]
               /\ pc' = [pc EXCEPT ![c] = "clone"]
               /\ UNCHANGED outcome
          ELSE Return(c, Panicked)
    /\ UNCHANGED <<hyper, cfgcall, tlsFeature, maxConns, http_pools, https_pools, pools, conns,
                   req, idx, stream, tried, failed, exchanged,
                   addrs, asked, config, elapsed>>

\* A slip of DropRef: the Ref is kept across pool.get().await.
KeepGuard(c) == UNCHANGED guard
\* mod.rs:190-191 / 218-219: clone the Pool handle, drop the Ref.
DropRef(c) == guard' = [guard EXCEPT ![c] = None]

\* mod.rs:190-193 / 218-221: clone, drop, and begin pool.get().
CloneDrop(c) ==
    /\ pc[c] = "clone"
    /\ DropRef(c)
    /\ tried' = [tried EXCEPT ![c] = Append(@, CurAddr(c))]
    /\ pc' = [pc EXCEPT ![c] = "acquire"]
    /\ UNCHANGED <<hyper, cfgcall, tlsFeature, maxConns, http_pools, https_pools, pools, conns,
                   req, idx, pool, stream, outcome, failed, exchanged,
                   addrs, asked, config, elapsed>>

\* pool.get() waits for a permit of the Pool's semaphore: the call is
\* suspended for as long as there is none.
Acquire(c) ==
    /\ pc[c] = "acquire"
    /\ pools[pool[c][1]].permits > 0
    /\ pools' = [pools EXCEPT ![pool[c][1]] = [@ EXCEPT !.permits = @ - 1]]
    /\ pc' = [pc EXCEPT ![c] = "pop"]
    /\ UNCHANGED <<hyper, cfgcall, tlsFeature, maxConns, http_pools, https_pools, conns, req,
                   idx, pool, guard, stream, outcome, tried, failed, exchanged,
                   addrs, asked, config, elapsed>>

\* mod.rs:199-201 / 227-230: the Object is wrapped and handed to client::connect.
Checkout(c, k) ==
    /\ stream' = [stream EXCEPT ![c] = Some(k)]
    /\ pc' = [pc EXCEPT ![c] = "exchange"]

\* A slip of RecycleFailed: the failed recycle ends the get with an error.
RecycleFailureSurfaces(c) ==
    /\ pools' = PoolGiveUp(Discard(pools, pool[c][1]), pool[c][1])
    /\ conns' = [conns EXCEPT ![Head(pools[pool[c][1]].idle)] =
                                  [@ EXCEPT !.open = FALSE]]
    /\ failed' = [failed EXCEPT ![c] = Append(@, addrs[c][idx[c]])]
    /\ IF idx[c] # Len(addrs[c])
       THEN /\ idx' = [idx EXCEPT ![c] = @ + 1]
            /\ pc' = [pc EXCEPT ![c] = "lookup"]
            /\ UNCHANGED <<outcome, guard, pool>>
       ELSE /\ Return(c, Err(400, "pool.get", addrs[c][idx[c]]))
            /\ idx' = idx
    /\ UNCHANGED stream
\* The Object at the head of the queue failed recycle: it is destroyed and
\* the get goes on, with its permit, to the next Object or to a create.
RecycleFailed(c) ==
    /\ pools' = Discard(pools, pool[c][1])
    /\ conns' = [conns EXCEPT ![Head(pools[pool[c][1]].idle)] =
                                  [@ EXCEPT !.open = FALSE]]
    /\ UNCHANGED <<pc, stream, idx, pool, guard, outcome, failed>>

\* pool.get() with its permit: the oldest idle Object is taken and recycled; a
\* recycled Object is handed out, one that fails recycle is destroyed and the
\* next is tried; with no idle Object the manager's create is called.
Pop(c) ==
    /\ pc[c] = "pop"
    /\ LET p == pool[c][1]
           q == pools[p].idle
       IN IF q = <<>>
          THEN /\ pools' = [pools EXCEPT ![p] = [@ EXCEPT !.creates = @ + 1]]
               /\ pc' = [pc EXCEPT ![c] = "creating"]
               /\ elapsed' = [elapsed EXCEPT ![c] = 0]
               /\ UNCHANGED <<conns, stream, idx, pool, guard, outcome, failed>>
          ELSE IF Recycle(pools[p].scheme, Head(q))
          THEN /\ pools' = [pools EXCEPT ![p] = [@ EXCEPT !.idle = Tail(q)]]
               /\ conns' = SetNoDelay(conns, Head(q))
               /\ Checkout(c, Head(q))
               /\ UNCHANGED <<elapsed, idx, pool, guard, outcome, failed>>
          ELSE /\ RecycleFailed(c)
               /\ UNCHANGED elapsed
    /\ UNCHANGED <<hyper, cfgcall, tlsFeature, maxConns, http_pools, https_pools, req, tried,
                   exchanged, addrs, asked, config>>

\* tls.rs:77-84 TlsConnection::create (and TcpConnection::create): the dial
\* (and the handshake, with the manager's host) succeeded.
CreateOk(c) ==
    /\ pc[c] = "creating"
    /\ LET p == pool[c][1]
       IN /\ conns' = SetNoDelay(Append(conns,
                                 [pool |-> p, host |-> pools[p].host,
                                  probe |-> "pending", nodelay |-> TRUE,
                                  open |-> TRUE, no_delay |-> FALSE]),
                                 Len(conns) + 1)
          /\ pools' = [pools EXCEPT ![p] = [@ EXCEPT !.size = @ + 1]]
    /\ Checkout(c, Len(conns) + 1)
    /\ UNCHANGED <<hyper, cfgcall, tlsFeature, maxConns, http_pools, https_pools, req, idx, pool,
                   guard, outcome, tried, failed, exchanged,
                   addrs, asked, config, elapsed>>

\* Slips of GetFailed: the Err arm without its has_another_addr guard, and the
\* last candidate's error returned with another status.
SurfaceEveryFailure(c) ==
    /\ Return(c, Err(400, "pool.get", CurAddr(c)))
    /\ idx' = idx
WrongStatus(c) ==
    IF has_another_addr(c)
    THEN /\ idx' = [idx EXCEPT ![c] = @ + 1]
         /\ pc' = [pc EXCEPT ![c] = "lookup"]
         /\ UNCHANGED <<outcome, guard, pool>>
    ELSE /\ Return(c, Err(500, "pool.get", CurAddr(c)))
         /\ idx' = idx
\* mod.rs:193-197 / 221-225: pool.get() returned Err: continue with the next
\* address if there is one, else return the error with status 400.
GetFailed(c) ==
    IF has_another_addr(c)
    THEN /\ idx' = [idx EXCEPT ![c] = @ + 1]
         /\ pc' = [pc EXCEPT ![c] = "lookup"]
         /\ UNCHANGED <<outcome, guard, pool>>
    ELSE /\ Return(c, Err(400, "pool.get", CurAddr(c)))
         /\ idx' = idx

\* A slip of CreateFail: the failed get keeps its permit.
CreateFailKeepsPermit(c) ==
    /\ pc[c] = "creating"
    /\ pools' = pools
    /\ failed' = [failed EXCEPT ![c] = Append(@, CurAddr(c))]
    /\ GetFailed(c)
    /\ UNCHANGED <<hyper, cfgcall, tlsFeature, maxConns, http_pools, https_pools, conns, req,
                   stream, tried, exchanged, addrs, asked, config, elapsed>>
\* create failed (the dial or the handshake): pool.get() gives its permit
\* back and returns the error.
CreateFail(c) ==
    /\ pc[c] = "creating"
    /\ pools' = PoolGiveUp(pools, pool[c][1])
    /\ failed' = [failed EXCEPT ![c] = Append(@, CurAddr(c))]
    /\ GetFailed(c)
    /\ UNCHANGED <<hyper, cfgcall, tlsFeature, maxConns, http_pools, https_pools, conns, req,
                   stream, tried, exchanged,
                   addrs, asked, config, elapsed>>

\* mod.rs:201 / 230: client::connect returned Ok: send returns the Response,
\* whose body reads from the connection and so keeps the Object.
ExchangeOk(c) ==
    /\ pc[c] = "exchange"
    /\ exchanged' = [exchanged EXCEPT ![c] = Append(@, Response(CurAddr(c)))]
    /\ pc' = [pc EXCEPT ![c] = "body"]
    /\ outcome' = [outcome EXCEPT ![c] = Response(CurAddr(c))]
    /\ pool' = [pool EXCEPT ![c] = None]
    /\ UNCHANGED <<hyper, cfgcall, tlsFeature, maxConns, http_pools, https_pools, pools, conns,
                   req, idx, guard, stream, tried, failed,
                   addrs, asked, config, elapsed>>

\* Slips of ExchangeErr: the connection goes back to the Pool while the call
\* still holds it, the loop goes on to the next candidate after a failed
\* exchange, and the connection goes nowhere when its holder lets go of it.
KeepStreamAfterFailure(c) ==
    /\ pools' = PoolReturn(pools, stream[c][1])
    /\ UNCHANGED stream
    /\ Return(c, Err(500, "client::connect", CurAddr(c)))
    /\ idx' = idx
RetryNextAddr(c) ==
    /\ pools' = PoolReturn(pools, stream[c][1])
    /\ stream' = [stream EXCEPT ![c] = None]
    /\ IF has_another_addr(c)
       THEN /\ idx' = [idx EXCEPT ![c] = @ + 1]
            /\ pc' = [pc EXCEPT ![c] = "lookup"]
            /\ UNCHANGED <<outcome, guard, pool>>
       ELSE /\ Return(c, Err(500, "client::connect", CurAddr(c)))
            /\ idx' = idx
LeakStreamOnError(c) ==
    /\ pools' = pools
    /\ stream' = [stream EXCEPT ![c] = None]
    /\ Return(c, Err(500, "client::connect", CurAddr(c)))
    /\ idx' = idx
\* mod.rs:201 / 230: client::connect returned Err: send returns it as it is;
\* the wrapper and its Object are dropped.
ExchangeErr(c) ==
    /\ pools' = PoolReturn(pools, stream[c][1])
    /\ stream' = [stream EXCEPT ![c] = None]
    /\ Return(c, Err(500, "client::connect", CurAddr(c)))
    /\ idx' = idx

ExchangeFail(c) ==
    /\ pc[c] = "exchange"
    /\ exchanged' = [exchanged EXCEPT ![c] =
                        Append(@, Err(500, "client::connect", CurAddr(c)))]
    /\ ExchangeErr(c)
    /\ UNCHANGED <<hyper, cfgcall, tlsFeature, maxConns, http_pools, https_pools, conns, req,
                   tried, failed,
                   addrs, asked, config, elapsed>>

\* The caller is done with the Response: its body, the wrapper and the Object
\* are dropped, and the connection goes back to its Pool.
DropResponse(c) ==
    /\ pc[c] = "body"
    /\ pools' = PoolReturn(pools, stream[c][1])
    /\ stream' = [stream EXCEPT ![c] = None]
    /\ pc' = [pc EXCEPT ![c] = "done"]
    /\ UNCHANGED <<hyper, cfgcall, tlsFeature, maxConns, http_pools, https_pools, conns, req,
                   idx, pool, guard, outcome, tried, failed, exchanged,
                   addrs, asked, config, elapsed>>

\* A slip of AbandonWait: the abandoned waiter takes a permit with it.
AbandonWaitTakesPermit(ps, p) == [ps EXCEPT ![p] = [@ EXCEPT !.permits = @ - 1]]
\* A get dropped while it waits for a permit leaves the Pool as it is.
AbandonWait(ps, p) == ps

\* The caller drops the future of send at one of its awaits: waiting for a
\* permit, in create, or in client::connect.
Cancel(c) ==
    /\ pc[c] \in {"acquire", "creating", "exchange"}
    /\ pools' = CASE pc[c] = "acquire" -> AbandonWait(pools, pool[c][1])
                  [] pc[c] = "creating" -> PoolGiveUp(pools, pool[c][1])
                  [] pc[c] = "exchange" -> PoolReturn(pools, stream[c][1])
    /\ stream' = [stream EXCEPT ![c] = None]
    /\ Return(c, Cancelled)
    /\ UNCHANGED <<hyper, cfgcall, tlsFeature, maxConns, http_pools, https_pools, conns, req,
                   idx, tried, failed, exchanged,
                   addrs, asked, config, elapsed>>

\* What can become of an open connection nobody has written to: the peer
\* closes it, resets it or sends bytes nobody asked for, or the socket stops
\* taking options.
Conditions ==
    {<<"eof", TRUE>>, <<"error", TRUE>>, <<"data", TRUE>>, <<"pending", FALSE>>}

PeerEvent(k) ==
    /\ conns[k].open
    /\ conns[k].probe = "pending" /\ conns[k].nodelay
    /\ \E e \in Conditions :
           conns' = [conns EXCEPT ![k] = [@ EXCEPT !.probe = e[1], !.nodelay = e[2]]]
    /\ UNCHANGED <<hyper, cfgcall, tlsFeature, maxConns, http_pools, https_pools, pools, pc, req,
                   idx, pool, guard, stream, outcome, tried, failed, exchanged,
                   addrs, asked, config, elapsed>>

\* The steps of the send call c and of its caller.
Step(c) ==
    \/ Begin(c)
    \/ Lookup(c)
    \/ Insert(c)
    \/ ReGet(c)
    \/ CloneDrop(c)
    \/ Acquire(c)
    \/ Pop(c)
    \/ CreateOk(c)
    \/ CreateFail(c)
    \/ ExchangeOk(c)
    \/ ExchangeFail(c)
    \/ DropResponse(c)
    \/ Cancel(c)

Next ==
    \/ \E c \in Calls : Step(c)
    \/ \E k \in 1..Len(conns) : PeerEvent(k)

Spec == Init /\ [][Next]_vars

\* send up to its socket addresses, on every URL: explicit ports too.
BeginAnyUrl(c) == \E r \in Urls : Start(c, r)

UrlNext == \E c \in Calls : BeginAnyUrl(c)

UrlSpec == Init /\ [][UrlNext]_vars

\* A send call is under way: issued, and neither returned with an error nor
\* done with its Response.
Active(c) == pc[c] \notin {"idle", "done"}

\* The calls issued one after another: a call begins, and goes on, only while
\* no other is under way.
SeqNext ==
    \/ \E c \in Calls : (\A d \in Calls \ {c} : ~Active(d)) /\ Step(c)
    \/ \E k \in 1..Len(conns) : PeerEvent(k)

SeqSpec == Init /\ [][SeqNext]_vars

\* Requests to two host names that the resolver answers with the same
\* addresses (virtual hosts behind one IP address).
VirtualHosts == {"a.test", "b.test"}
HostRequests ==
    {[scheme |-> s, host |-> h, port |-> None, resolved |-> TRUE, ips |-> <<ip>>] :
        s \in {"http", "https"}, h \in VirtualHosts, ip \in Addrs}

BeginOnHost(c) == \E r \in HostRequests : Start(c, r)

\* The calls issued one after another, each to one of the virtual hosts.
HostNext ==
    \/ \E c \in Calls :
          /\ \A d \in Calls \ {c} : ~Active(d)
          /\ \/ BeginOnHost(c)
             \/ Lookup(c)
             \/ Insert(c)
             \/ ReGet(c)
             \/ CloneDrop(c)
             \/ Acquire(c)
             \/ Pop(c)
             \/ CreateOk(c)
             \/ CreateFail(c)
             \/ ExchangeOk(c)
             \/ ExchangeFail(c)
             \/ DropResponse(c)
             \/ Cancel(c)
    \/ \E k \in 1..Len(conns) : PeerEvent(k)

HostSpec == Init /\ [][HostNext]_vars

\* A socket option of an idle connection is lost (an intermediate proxy, the
\* operating system): TCP_NODELAY reads the other way.
OptionLost(k) ==
    /\ conns[k].open
    /\ \E p \in 1..Len(pools) : \E i \in 1..Len(pools[p].idle) : pools[p].idle[i] = k
    /\ conns' = [conns EXCEPT ![k] = [@ EXCEPT !.no_delay = ~@]]
    /\ UNCHANGED <<hyper, cfgcall, tlsFeature, maxConns, http_pools, https_pools,
                   pools, pc, req, idx, pool, guard, stream, outcome, tried,
                   failed, exchanged, addrs, asked, config, elapsed>>

\* A client built from a Config that sets tcp_no_delay either way, its calls
\* issued one after another, the idle connections' options at the mercy of
\* the environment.
NoDelayInit ==
    /\ tlsFeature \in BOOLEAN
    /\ \E cfg \in Configs :
          /\ cfg.max_connections_per_host = 50 /\ cfg.timeout = None
          /\ cfg.http_keep_alive
          /\ from(cfg)
    /\ Fresh

NoDelayNext ==
    \/ SeqNext
    \/ \E k \in 1..Len(conns) : OptionLost(k)

NoDelaySpec == NoDelayInit /\ [][NoDelayNext]_vars

\* mod.rs:124-126 H1Client::override_config(&mut self, config): the exclusive
\* borrow leaves no send call under way.
override_config(cfg) ==
    /\ \A c \in Calls : ~Active(c)
    /\ config' = Some(cfg)
    /\ cfgcall' = Some("returned")
    /\ UNCHANGED <<hyper, tlsFeature, maxConns, http_pools, https_pools, pools, conns,
                   pc, req, idx, pool, guard, stream, outcome, tried, failed,
                   exchanged, addrs, asked, elapsed>>

\* mod.rs:129-131 H1Client::update_config(&mut self, _config): todo!(), a
\* panic that unwinds out of the call and leaves the client as it was.
update_config(cfg) ==
    /\ \A c \in Calls : ~Active(c)
    /\ cfgcall' = Some("panicked")
    /\ UNCHANGED <<hyper, tlsFeature, maxConns, http_pools, https_pools, pools,
                   conns, pc, req, idx, pool, guard, stream, outcome, tried,
                   failed, exchanged, addrs, asked, config, elapsed>>

\* Time passes while the create of call c is running.
Tick(c) ==
    /\ pc[c] = "creating"
    /\ elapsed[c] < MaxWait
    /\ elapsed' = [elapsed EXCEPT ![c] = @ + 1]
    /\ UNCHANGED <<hyper, cfgcall, tlsFeature, maxConns, http_pools, https_pools, pools, conns,
                   pc, req, idx, pool, guard, stream, outcome, tried, failed,
                   exchanged, addrs, asked, config>>

\* One send call on a client built by any constructor and configured anew
\* before or after the call, with the clock running.
ConfigNext ==
    \/ Step(1)
    \/ \E k \in 1..Len(conns) : PeerEvent(k)
    \/ \E cfg \in Configs : override_config(cfg)
    \/ \E cfg \in Configs : update_config(cfg)
    \/ Tick(1)

ConfigSpec == ConfigInit /\ [][ConfigNext]_vars

\* ------------------------------------------- HyperClient (src/src/hyper.rs)
HeaderNames == {"accept", "x-id"}
HeaderValues == {"1", "2"}
Methods == {"GET", "POST", "DELETE"}
Versions == {None, Some("HTTP/1.1")}
Chunks == {<<1>>, <<2>>, <<1, 2>>}

\* hyper.rs:56-64: the methods try_from has an arm for.
RecognizedMethods ==
    {"GET", "HEAD", "POST", "PUT", "PATCH", "OPTIONS", "TRACE", "CONNECT"}

\* The values of one header name: one or more, in order.
ValueLists == UNION {[1..n -> HeaderValues] : n \in 1..MaxValues}

\* http_types Headers and hyper HeaderMap: names, each with its values.
HeaderMaps == UNION {[N -> ValueLists] : N \in SUBSET HeaderNames}

\* The requests HyperClient::send is given.
HyperRequests ==
    [method : Methods, version : Versions, scheme : {"http", "https", "ftp"},
     headers : HeaderMaps, body : {<<>>, <<1>>}]

\* What the server answers: the body in data frames, or a failing body read.
HyperResponses ==
    [chunks : UNION {[1..n -> Chunks] : n \in 0..MaxChunks}, readable : BOOLEAN]

\* hyper::Request::builder(): no header yet.
Builder == [headers |-> <<>>]

\* HeaderMap::append(name, value)
append(hm, name, value) ==
    IF name \in DOMAIN hm
    THEN [hm EXCEPT ![name] = Append(@, value)]
    ELSE [n \in DOMAIN hm \cup {name} |-> IF n = name THEN <<value>> ELSE hm[n]]

\* hyper.rs:106-111: the values of one name, appended in order.
RECURSIVE AppendValues(_, _, _)
AppendValues(hm, name, values) ==
    IF values = <<>> THEN hm
    ELSE AppendValues(append(hm, name, Head(values)), name, Tail(values))

\* hyper.rs:102-112: every (name, values) of the request, appended.
RECURSIVE AppendHeaders(_, _, _)
AppendHeaders(hm, headers, names) ==
    IF names = {} THEN hm
    ELSE LET n == CHOOSE x \in names : TRUE
         IN AppendHeaders(AppendValues(hm, n, headers[n]), headers, names \ {n})

\* hyper.rs:55-124 HyperHttpRequest::try_from: the method, the version, the
\* scheme; the headers go into the builder `request` (hyper.rs:98-112); the
\* request is then built by another hyper::Request::builder() (hyper.rs:117-121).
HyperHttpRequest(value) ==
    IF value.method \notin RecognizedMethods
    THEN Err(400, "unrecognized HTTP method", None)
    ELSE IF value.scheme \notin {"http", "https"}
    THEN Err(400, "invalid scheme", None)
    ELSE LET request == [Builder EXCEPT !.headers =
                            AppendHeaders(@, value.headers, DOMAIN value.headers)]
             built == Builder
         IN [kind |-> "request", method |-> value.method,
             version |-> IF value.version = None THEN "HTTP/1.1" ELSE value.version[1],
             scheme |-> value.scheme, headers |-> built.headers, body |-> value.body]

\* The bytes of a body that arrives in the given data frames.
RECURSIVE Concat(_)
Concat(chunks) == IF chunks = <<>> THEN <<>> ELSE Head(chunks) \o Concat(Tail(chunks))

\* hyper.rs:136-183 HttpTypesResponse::try_from: body.data().await once
\* (hyper.rs:154-165): no frame is the empty body, a frame is the body, a
\* failing read is status 502.
HttpTypesResponse(value) ==
    IF value.chunks = <<>> THEN [kind |-> "response", body |-> <<>>]
    ELSE IF ~value.readable THEN Err(502, "unable to read HTTP response body", None)
    ELSE [kind |-> "response", body |-> value.chunks[1]]

\* The variables of the pooled client, which a HyperClient call leaves alone.
h1vars == <<tlsFeature, maxConns, http_pools, https_pools, pools, conns, pc, req,
            idx, pool, guard, stream, outcome, tried, failed, exchanged, addrs,
            asked, config, elapsed, cfgcall>>

\* hyper.rs:27 HyperHttpRequest::try_from(req).await?.into_inner()
HyperConvert ==
    /\ hyper.pc = "idle"
    /\ \E r \in HyperRequests :
          LET q == HyperHttpRequest(r)
          IN hyper' = IF q.kind = "request"
                      THEN [pc |-> "request", req |-> r, sent |-> q]
                      ELSE [pc |-> "done", req |-> r, result |-> q]
    /\ UNCHANGED h1vars

\* hyper.rs:31-42 client.request(req).await?: the request as built goes out;
\* the server answers, or the exchange fails.
HyperRequest ==
    /\ hyper.pc = "request"
    /\ \/ \E a \in HyperResponses :
             hyper' = [pc |-> "response", req |-> hyper.req, sent |-> hyper.sent,
                       answer |-> a]
       \/ hyper' = [pc |-> "done", req |-> hyper.req, sent |-> hyper.sent,
                    result |-> Err(500, "hyper", None)]
    /\ UNCHANGED h1vars

\* hyper.rs:44-45 HttpTypesResponse::try_from(response).await?.into_inner()
HyperReturn ==
    /\ hyper.pc = "response"
    /\ hyper' = [pc |-> "done", req |-> hyper.req, sent |-> hyper.sent,
                 answer |-> hyper.answer, result |-> HttpTypesResponse(hyper.answer)]
    /\ UNCHANGED h1vars

HyperNext == HyperConvert \/ HyperRequest \/ HyperReturn

HyperSpec == Init /\ [][HyperNext]_vars

\* ================================================================ claims

\* The Pool instances built for one scheme and address, whether or not the
\* registry still holds them.
PoolsFor(s, a) == {p \in 1..Len(pools) : pools[p].scheme = s /\ pools[p].addr = a}

\* The calls that have been issued, and whether all of them go to one address.
Issued == {c \in Calls : pc[c] # "idle"}
AllTo(s, a) == \A c \in Issued : req[c].scheme = s /\ addrs[c] = <<a>>

RECURSIVE SumCreates(_)
SumCreates(P) ==
    IF P = {} THEN 0
    ELSE LET p == CHOOSE x \in P : TRUE IN pools[p].creates + SumCreates(P \ {p})

Min(a, b) == IF a < b THEN a ELSE b

\* C1: concurrent send calls that resolve to the same socket address all get
\* their connection from one and the same Pool instance: no two connections
\* to one address (of one scheme) come from two distinct Pool instances.
C1_OnePoolServesAnAddress ==
    \A k1, k2 \in 1..Len(conns) :
        (/\ pools[conns[k1].pool].scheme = pools[conns[k2].pool].scheme
         /\ pools[conns[k1].pool].addr = pools[conns[k2].pool].addr)
        => conns[k1].pool = conns[k2].pool

\* C2: N send calls issued to one socket address on a fresh client with limit
\* max, no create failing, no call abandoned and every connection staying
\* healthy: create is invoked at most min(N, max) times in total.
C2_CreateAtMostMin ==
    \A s \in {"http", "https"}, a \in SocketAddr :
        (/\ AllTo(s, a)
         /\ \A c \in Calls : failed[c] = <<>> /\ outcome[c] # Cancelled
         /\ \A k \in 1..Len(conns) :
                conns[k].open /\ conns[k].probe = "pending" /\ conns[k].nodelay)
        => SumCreates(PoolsFor(s, a)) <= Min(Cardinality(Issued), maxConns)

\* C3: for every Pool, the connections checked out plus the idle connections
\* are at most the Pool's maximum size, the client's max_concurrent_connections.
C3_PoolWithinMax ==
    \A p \in 1..Len(pools) :
        Cardinality(CheckedOut(p)) + Len(pools[p].idle) <= maxConns

\* C3 witness: a Pool at its maximum with connections both checked out and idle.
C3_Witness ==
    \E p \in 1..Len(pools) :
        /\ Cardinality(CheckedOut(p)) >= 1
        /\ Len(pools[p].idle) >= 1
        /\ Cardinality(CheckedOut(p)) + Len(pools[p].idle) = maxConns

\* The connections in some Pool's idle queue.
Idle == {k \in 1..Len(conns) :
            \E p \in 1..Len(pools) : \E i \in 1..Len(pools[p].idle) : pools[p].idle[i] = k}

\* C4: a connection is never checked out to two callers at once, a checked-out
\* connection is not in the idle set, and a connection enters the idle set only
\* when the call that holds it lets go of it.
C4_ExclusiveOwnership ==
    /\ [](/\ \A c, d \in Calls : (c # d /\ stream[c] # None) => stream[c] # stream[d]
          /\ Held \cap Idle = {})
    /\ [][\A k \in 1..Len(conns) :
            (k \notin Idle /\ k \in Idle') =>
                \E c \in Calls : stream[c] = Some(k) /\ stream'[c] = None]_vars

\* C4 witness: one caller holds a connection while another connection, released
\* by its holder, sits idle in the same Pool.
C4_Witness ==
    \E c \in Calls, k \in Idle :
        /\ stream[c] # None
        /\ conns[stream[c][1]].pool = conns[k].pool

\* C5: a call inside pool.get() (waiting for a permit, taking or creating a
\* connection) holds no guard on a registry entry, for either registry.
C5_NoGuardAcrossGet ==
    \A c \in Calls : pc[c] \in {"acquire", "pop", "creating"} => guard[c] = None

\* C5 witness: a call suspended in pool.get() of a Pool that has no permit
\* left, having found or inserted the entry.
C5_Witness ==
    \E c \in Calls :
        /\ pc[c] = "acquire"
        /\ pools[pool[c][1]].permits = 0
        /\ pools[pool[c][1]].max_size > 0

\* The checked-out connections to one address of one scheme.
HeldTo(s, a) == {k \in Held : pools[conns[k].pool].scheme = s /\ pools[conns[k].pool].addr = a}

\* C6: with a per-host limit of 1, at no time are two connections to one
\* address checked out: a second send has to wait for the first to release.
C6_OneAtATime ==
    maxConns = 1 =>
        \A s \in {"http", "https"}, a \in SocketAddr : Cardinality(HeldTo(s, a)) <= 1

\* send has returned to its caller (with a Response whose body may still be
\* read, or with an error) or was abandoned by it.
Returned(c) == pc[c] \in {"body", "done"}

\* The scheduling the executor and the callers provide: every task that can
\* take a step of send gets to take it, a create and an exchange come back,
\* and a caller that holds a Response lets go of it.
Fairness ==
    \A c \in Calls :
        /\ WF_vars(Lookup(c)) /\ WF_vars(Insert(c)) /\ WF_vars(ReGet(c))
        /\ WF_vars(CloneDrop(c)) /\ WF_vars(Acquire(c)) /\ WF_vars(Pop(c))
        /\ WF_vars(CreateOk(c) \/ CreateFail(c))
        /\ WF_vars(ExchangeOk(c) \/ ExchangeFail(c))
        /\ WF_vars(DropResponse(c))

FairSpec == Init /\ [][Next]_vars /\ Fairness

\* Every issued call returns (or is abandoned by its caller) when the limit is
\* at least 1: no call waits forever and no set of calls deadlocks.
EverySendReturns ==
    (maxConns >= 1) => \A c \in Calls : (pc[c] # "idle") ~> Returned(c)

\* C7: with a per-host limit of at least 1 and fair scheduling, every send
\* call that was issued ends, what it ends with is a Response or an error,
\* and that outcome never changes afterwards.
C7_EverySendEndsInOneOutcome ==
    /\ EverySendReturns
    /\ [](maxConns >= 1 =>
            \A c \in Calls : (Returned(c) /\ outcome[c] # Cancelled) =>
                                outcome[c].kind \in {"response", "error"})
    /\ [][\A c \in Calls : outcome[c] # NoOutcome => outcome'[c] = outcome[c]]_vars

IsPrefix(s, t) == Len(s) <= Len(t) /\ s = SubSeq(t, 1, Len(s))
Last(s) == s[Len(s)]

\* C8: pool.get() is begun on the candidates in resolver order, on candidate
\* i+1 only after it failed on candidate i, and an error of pool.get() reaches
\* the caller only when it is the last candidate's.
C8_CandidatesInOrder ==
    \A c \in Calls :
        /\ IsPrefix(tried[c], addrs[c])
        /\ IsPrefix(failed[c], tried[c])
        /\ Len(tried[c]) <= Len(failed[c]) + 1
        /\ (outcome[c].kind = "error" /\ outcome[c].msg = "pool.get") =>
               /\ failed[c] = addrs[c]
               /\ outcome[c].at = Last(addrs[c])

\* C8 witness: a call that failed on its first candidate returned a Response
\* from its second.
C8_Witness ==
    \E c \in Calls :
        /\ Len(failed[c]) = 1
        /\ Len(tried[c]) = 2
        /\ outcome[c] = Response(addrs[c][2])

\* C9: once pool.get() has succeeded, send runs client::connect once and
\* returns its result as it is; it begins no other pool.get() and creates
\* nothing more, whether or not candidates remain.
C9_NoRetryAfterConnect ==
    /\ [](\A c \in Calls :
            /\ Len(exchanged[c]) <= 1
            /\ exchanged[c] # <<>> => (Returned(c) /\ outcome[c] = exchanged[c][1]))
    /\ [][\A c \in Calls :
            (stream[c] # None \/ exchanged[c] # <<>>) =>
                /\ tried'[c] = tried[c]
                /\ pc'[c] \in {"exchange", "body", "done"}]_vars

\* C9 witness: client::connect failed while another candidate remained, and
\* send returned that error.
C9_Witness ==
    \E c \in Calls :
        /\ pc[c] = "done"
        /\ Len(exchanged[c]) = 1
        /\ outcome[c].kind = "error"
        /\ Len(tried[c]) < Len(addrs[c])

\* What the design calls NoUsableAddress: the status-400 error send builds
\* when the last candidate's pool.get() failed (mod.rs:196) or when the loop
\* ended without a connection (mod.rs:236-239).
NoUsableAddress(o) ==
    /\ o.kind = "error"
    /\ o.status = 400
    /\ o.msg \in {"pool.get", "missing valid address"}

\* C10: when pool.get() failed for every candidate, send has failed with
\* NoUsableAddress and has run no client::connect.
C10_AllCandidatesFailed ==
    \A c \in Calls :
        (addrs[c] # <<>> /\ failed[c] = addrs[c]) =>
            /\ pc[c] = "done"
            /\ NoUsableAddress(outcome[c])
            /\ exchanged[c] = <<>>

\* C10 witness: a call with two candidates for which both pool.get() failed.
C10_Witness ==
    \E c \in Calls : Len(addrs[c]) = 2 /\ failed[c] = addrs[c]

\* ------------------------------------------------ validation (C11..C16)
\* What the design calls InvalidScheme (mod.rs:155-158) and MissingHost
\* (mod.rs:148).
InvalidScheme(o) == o.kind = "error" /\ o.status = 400 /\ o.msg = "invalid url scheme"
MissingHost(o) == o.kind = "error" /\ o.status = 400 /\ o.msg = "missing hostname"

\* The schemes the design supports: "http", and "https" when TLS is configured.
Supported(r) == r.scheme = "http" \/ (r.scheme = "https" /\ tlsFeature)

\* C11: a send call gets past the scheme validation exactly when its scheme
\* is "http", or "https" with TLS support; with any other scheme, and with
\* "https" without TLS support, it has failed with InvalidScheme.
C11_SchemeValidation ==
    \A c \in Issued :
        IF Supported(req[c])
        THEN ~InvalidScheme(outcome[c])
        ELSE pc[c] = "done" /\ InvalidScheme(outcome[c])

\* C12: a send call that fails with InvalidScheme has asked for no socket
\* address, begun no pool.get() and run no exchange, and the step in which it
\* fails leaves both registries, every Pool and every connection as they were.
C12_InvalidSchemeTouchesNothing ==
    /\ [](\A c \in Calls :
            InvalidScheme(outcome[c]) =>
                /\ ~asked[c] /\ addrs[c] = <<>>
                /\ tried[c] = <<>> /\ exchanged[c] = <<>>)
    /\ [][\A c \in Calls :
            (~InvalidScheme(outcome[c]) /\ InvalidScheme(outcome'[c])) =>
                /\ http_pools' = http_pools /\ https_pools' = https_pools
                /\ pools' = pools /\ conns' = conns]_vars

\* C12 witness: a call has failed with InvalidScheme on a client that already
\* has a Pool with a connection in it.
C12_Witness ==
    \E c \in Calls :
        /\ InvalidScheme(outcome[c])
        /\ conns # <<>>
        /\ DOMAIN http_pools \cup DOMAIN https_pools # {}

\* C13: a request with an unsupported scheme and no host fails with
\* InvalidScheme, not MissingHost: the scheme is checked before the host.
C13_SchemeBeforeHost ==
    \A c \in Issued :
        (~Supported(req[c]) /\ req[c].host = NoHost) =>
            (pc[c] = "done" /\ InvalidScheme(outcome[c]))

C15_EmptyListIsAnError ==
    \A c \in Issued :
        (asked[c] /\ req[c].resolved /\ req[c].ips = <<>>) =>
            (pc[c] = "done" /\ outcome[c].kind = "error")

\* C16: the candidates of a send call are the addresses the resolver gave, in
\* its order, each with the URL's port when it names one, else port 80 for
\* "http" and port 443 for "https".
C16_CandidatePorts ==
    \A c \in Issued :
        (asked[c] /\ req[c].resolved) =>
            /\ Len(addrs[c]) = Len(req[c].ips)
            /\ \A i \in DOMAIN addrs[c] :
                  /\ addrs[c][i][1] = req[c].ips[i]
                  /\ addrs[c][i][2] =
                        IF req[c].port # None THEN req[c].port[1]
                        ELSE IF req[c].scheme = "http" THEN 80 ELSE 443

\* C16 witness: one call to an "https" URL without a port and one to a URL
\* with an explicit port, each with its candidates.
C16_Witness ==
    \E c, d \in Calls :
        /\ req[c].scheme = "https" /\ req[c].port = None /\ Len(addrs[c]) = 2
        /\ req[d].scheme = "http" /\ req[d].port # None /\ Len(addrs[d]) = 2

\* --------------------------------------------------- recycle (C17..C20)
\* The connections in the idle queue of Pool p.
InQueue(p) == {pools[p].idle[i] : i \in 1..Len(pools[p].idle)}

\* C17: recycle reports healthy for every idle connection whose probe is
\* pending and whose socket option can be set, and such a connection leaves
\* the idle queue only into the hands of a caller, still open.
C17_PendingIsHealthy ==
    /\ [](\A p \in 1..Len(pools) : \A k \in InQueue(p) :
            (conns[k].probe = "pending" /\ conns[k].nodelay) =>
                Recycle(pools[p].scheme, k))
    /\ [][\A p \in 1..Len(pools) : \A k \in InQueue(p) :
            (conns[k].probe = "pending" /\ conns[k].nodelay
             /\ k \notin InQueue(p)') =>
                (conns'[k].open /\ \E c \in Calls : stream'[c] = Some(k))]_vars

\* C17 witness: a call holds the one TLS connection ever created, which an
\* earlier call got its Response over and gave back.
C17_Witness ==
    \E c, d \in Calls :
        /\ Len(conns) = 1
        /\ pools[conns[1].pool].scheme = "https"
        /\ pc[d] = "done" /\ outcome[d].kind = "response"
        /\ stream[c] = Some(1)

\* C18: recycle fails for every idle connection that its peer closed or whose
\* probe reports an error, and such a connection, once it is out of a
\* caller's hands, is never handed to a caller again.
C18_ClosedIsNeverHandedOut ==
    /\ [](\A p \in 1..Len(pools) : \A k \in InQueue(p) :
            conns[k].probe \in {"eof", "error"} => ~Recycle(pools[p].scheme, k))
    /\ [][\A k \in 1..Len(conns) :
            (conns[k].probe \in {"eof", "error"} /\ k \notin Held) =>
                k \notin Held']_vars

\* C18 witness: a TLS connection that its peer closed while it was idle has
\* been destroyed by a later pool.get().
C18_Witness ==
    \E k \in 1..Len(conns) :
        /\ pools[conns[k].pool].scheme = "https"
        /\ conns[k].probe = "eof"
        /\ ~conns[k].open

\* C19: recycle reports Unhealthy for every idle connection whose probe
\* returns data, and such a connection is never handed to a caller.
C19_DataIsUnhealthy ==
    /\ [](\A p \in 1..Len(pools) : \A k \in InQueue(p) :
            conns[k].probe = "data" => ~Recycle(pools[p].scheme, k))
    /\ [][\A k \in 1..Len(conns) :
            (conns[k].probe = "data" /\ k \notin Held) => k \notin Held']_vars

\* The calls that hold a permit of Pool p: inside pool.get() past the
\* semaphore, or holding an Object.
Permitted(p) ==
    {c \in Calls : \/ (pc[c] \in {"pop", "creating"} /\ pool[c] = Some(p))
                   \/ (stream[c] # None /\ conns[stream[c][1]].pool = p)}

\* C20: a connection that fails recycle leaves the Pool and the Pool's size
\* goes down by one, the call that met it keeping its permit; the size is
\* always the number of live connections of the Pool, a create is under way
\* only below the maximum, and no permit is ever lost.
C20_UnhealthyFreesItsSlot ==
    /\ [](\A p \in 1..Len(pools) :
            /\ pools[p].size = Cardinality(CheckedOut(p)) + Len(pools[p].idle)
            /\ pools[p].permits + Cardinality(Permitted(p)) = pools[p].max_size
            /\ \A c \in Calls :
                  (pc[c] = "creating" /\ pool[c] = Some(p)) =>
                      pools[p].size < pools[p].max_size)
    /\ [][\A p \in 1..Len(pools) : \A k \in InQueue(p) :
            (conns[k].open /\ ~conns'[k].open) =>
                /\ k \notin InQueue(p)'
                /\ pools'[p].size = pools[p].size - 1
                /\ pools'[p].permits = pools[p].permits
                /\ Permitted(p)' = Permitted(p)]_vars

\* C20 witness: a Pool of maximum 1 whose only connection failed recycle has
\* created a fresh one for the same pool.get().
C20_Witness ==
    \E p \in 1..Len(pools) : \E k, n \in 1..Len(conns) :
        /\ pools[p].max_size = 1
        /\ conns[k].pool = p /\ ~conns[k].open
        /\ conns[n].pool = p /\ conns[n].open /\ n > k

\* ------------------------------------------- the Pool in use (C21..C25)
\* C21: a get that meets an idle connection failing recycle does not end
\* there: from the queue it goes on to the queue, to a create or to the
\* exchange; pool.get() fails for a call only out of a create, and an error of
\* pool.get() that send returns is the error of a create.
C21_UnhealthyIsNotSurfaced ==
    /\ [](\A c \in Calls :
            (outcome[c].kind = "error" /\ outcome[c].msg = "pool.get") =>
                Len(failed[c]) >= 1)
    /\ [][\A c \in Calls :
            /\ pc[c] = "pop" => pc'[c] \in {"pop", "creating", "exchange"}
            /\ failed'[c] # failed[c] => pc[c] = "creating"]_vars

\* C21 witness: a call has its Response over a connection created after an
\* older connection of the same Pool failed recycle, with no get failed.
C21_Witness ==
    \E c \in Calls :
        /\ pc[c] = "body" /\ failed[c] = <<>>
        /\ \E k \in 1..Len(conns) :
              /\ k < stream[c][1]
              /\ conns[k].pool = conns[stream[c][1]].pool
              /\ ~conns[k].open

\* C22: no client has a per-host limit of 0: no call ever waits for a permit
\* of a Pool that has none to give.
C22_NoClientWithLimitZero ==
    \A c \in Calls : pc[c] = "acquire" => pools[pool[c][1]].max_size >= 1

\* C23: every Pool is built with the max_connections_per_host of the Config
\* the client holds (built from, or last overridden with) as its maximum.
C23_PoolMaxIsConfigured ==
    [][(Len(pools') > Len(pools) /\ config # None) =>
          pools'[Len(pools')].max_size = config[1].max_connections_per_host]_vars

\* C24: when a call is abandoned while it waits for a permit, the step leaves
\* every Pool and every connection as it was; and a Pool nobody is using has
\* all its permits and counts just its idle connections.
C24_AbandonedWaitLeavesNoTrace ==
    /\ [](\A p \in 1..Len(pools) :
            Permitted(p) = {} =>
                /\ pools[p].permits = pools[p].max_size
                /\ pools[p].size = Len(pools[p].idle))
    /\ [][\A c \in Calls :
            (pc[c] = "acquire" /\ outcome'[c] = Cancelled) =>
                (pools' = pools /\ conns' = conns)]_vars

\* C24 witness: with a limit of 1, a call was abandoned while another call,
\* now in the Pool's only create, held the Pool's only permit.
C24_Witness ==
    \E c, d \in Calls :
        /\ outcome[c] = Cancelled /\ tried[c] # <<>>
        /\ pc[d] = "creating" /\ pool[d] # None
        /\ Len(pools) = 1 /\ Len(conns) = 0
        /\ pools[1].max_size = 1 /\ pools[1].creates = 1

\* C25: a connection that is alive is in its Pool's queue or in the hands of
\* a call that is in its exchange or has its Response; a call that lets go of
\* its connection, on whatever path, puts it back into the queue.
C25_CheckedOutComesBack ==
    /\ [](/\ \A k \in 1..Len(conns) : conns[k].open => (k \in Idle \/ k \in Held)
          /\ \A c \in Calls : stream[c] # None => pc[c] \in {"exchange", "body"})
    /\ [][\A c \in Calls :
            (stream[c] # None /\ stream'[c] = None) => stream[c][1] \in Idle']_vars

\* C25 witness: the only call ever issued was abandoned in its exchange, and
\* the connection it had created is back in the queue.
C25_Witness ==
    \E c \in Calls :
        /\ outcome[c] = Cancelled
        /\ \A d \in Calls \ {c} : pc[d] = "idle"
        /\ Len(conns) = 1 /\ 1 \in Idle

\* ------------------------------------- reuse, keys, timeouts (C26..C30)
\* The connections ever created for one address of one scheme.
ConnsTo(s, a) ==
    {k \in 1..Len(conns) : pools[conns[k].pool].scheme = s /\ pools[conns[k].pool].addr = a}

\* C26, as claimed: with the calls issued one after another, the connections
\* ever created for one address are at most the per-host limit.
C26_CreatedAtMostLimit ==
    \A s \in {"http", "https"}, a \in SocketAddr :
        Cardinality(ConnsTo(s, a)) <= maxConns

\* C26, amended: with the calls issued one after another, the connections
\* ever created for one address, those not counted that were destroyed after
\* failing recycle, are at most the per-host limit.
C26_CreatedAtMostLimitAndDestroyed ==
    \A s \in {"http", "https"}, a \in SocketAddr :
        Cardinality(ConnsTo(s, a)) <=
            maxConns + Cardinality({k \in ConnsTo(s, a) : ~conns[k].open})

\* C26 witness: with a limit of 1, the second of two calls holds the second
\* connection created for an address, the first having failed recycle.
C26_Witness ==
    \E s \in {"http", "https"}, a \in SocketAddr :
        /\ maxConns = 1
        /\ Cardinality(ConnsTo(s, a)) = 2
        /\ \E c \in Calls : stream[c] # None /\ stream[c][1] \in ConnsTo(s, a)

\* C27: a get goes to create only when no idle connection for the call's
\* address (and scheme) passes recycle.
C27_CreateOnlyWithoutHealthyIdle ==
    [][\A c \in Calls :
          (pc[c] = "pop" /\ pc'[c] = "creating") =>
              \A p \in PoolsFor(req[c].scheme, CurAddr(c)) :
                  \A k \in InQueue(p) : ~Recycle(pools[p].scheme, k)]_vars

\* The call has the Pool of its current candidate at hand (the local `pool`
\* of the loop body, mod.rs:177-193).
HasPool(c) == pc[c] \in {"clone", "acquire", "pop", "creating", "exchange"}

\* C28: two calls use the same Pool exactly when they have the same scheme
\* and the same socket address, and the connection a call holds is one of
\* its own scheme and address.
C28_PoolsKeyedByAddressAndScheme ==
    /\ \A c, d \in Calls :
          (HasPool(c) /\ HasPool(d)) =>
              ((req[c].scheme = req[d].scheme /\ CurAddr(c) = CurAddr(d))
                  <=> pool[c] = pool[d])
    /\ \A c \in Calls :
          stream[c] # None =>
              /\ pools[conns[stream[c][1]].pool].scheme = req[c].scheme
              /\ pools[conns[stream[c][1]].pool].addr = CurAddr(c)

\* The addresses of a sequence.
Range(s) == {s[i] : i \in 1..Len(s)}

\* C29: a candidate for which pool.get() failed in another call is not
\* skipped: a call that is past it has begun pool.get() on it, and while it
\* waits for a permit of that address's Pool, with no other call under way,
\* the Pool has every permit to give.
C29_FailedAddressIsTriedAgain ==
    \A c, d \in Calls :
        c # d =>
            /\ \A i \in 1..Len(addrs[d]) :
                  (/\ addrs[d][i] \in Range(failed[c])
                   /\ req[d].scheme = req[c].scheme
                   /\ \/ idx[d] > i
                      \/ idx[d] = i /\ pc[d] \notin {"lookup", "insert", "reget", "clone"})
                  => (Len(tried[d]) >= i /\ tried[d][i] = addrs[d][i])
            /\ (/\ pc[d] = "acquire"
                /\ ~Active(c)
                /\ req[d].scheme = req[c].scheme
                /\ CurAddr(d) \in Range(failed[c]))
               => pools[pool[d][1]].permits = pools[pool[d][1]].max_size

\* C29 witness: a call is in its exchange over a connection to its first
\* candidate, for which pool.get() failed in the call before it.
C29_Witness ==
    \E c, d \in Calls :
        /\ c # d /\ pc[c] = "done" /\ failed[c] # <<>>
        /\ req[d].scheme = req[c].scheme
        /\ pc[d] = "exchange" /\ idx[d] = 1
        /\ CurAddr(d) = failed[c][1]

\* C30: with a timeout configured, no create of a TLS connection (its dial
\* and handshake) runs for longer than the timeout.
C30_CreateWithinTimeout ==
    \A c \in Calls :
        (/\ pc[c] = "creating" /\ req[c].scheme = "https"
         /\ config # None /\ config[1].timeout # None) =>
            elapsed[c] <= config[1].timeout[1]

C32_HandshakedForOwnHost ==
    \A c \in Calls :
        (stream[c] # None /\ req[c].scheme = "https") =>
            conns[stream[c][1]].host = req[c].host

\* The registry send uses for a scheme.
RegistryOf(s) == IF s = "http" THEN http_pools ELSE https_pools

\* C33: a registered address stays registered, with the Pool it was
\* registered with; a call that is getting a connection for a candidate, or
\* has failed to, finds the candidate registered; and so does the lookup
\* that follows an insert.
C33_RegistriesOnlyGrow ==
    /\ [][/\ \A a \in DOMAIN http_pools :
               a \in DOMAIN http_pools' /\ http_pools'[a] = http_pools[a]
          /\ \A a \in DOMAIN https_pools :
               a \in DOMAIN https_pools' /\ https_pools'[a] = https_pools[a]]_vars
    /\ [](\A c \in Calls :
            /\ pc[c] \in {"reget", "clone", "acquire", "pop", "creating", "exchange"}
                  => CurAddr(c) \in DOMAIN RegistryOf(req[c].scheme)
            /\ \A a \in Range(failed[c]) : a \in DOMAIN RegistryOf(req[c].scheme))

\* ------------------------------------------- the configuration (C34, C35)
\* Connection k waits in the queue of Pool record q.
InQueueOf(q, k) == \E i \in 1..Len(q.idle) : q.idle[i] = k

\* C34: on a client whose Config has http_keep_alive false, a call does not
\* send "Connection: keep-alive", and the connection a call gives up is not
\* kept idle in a Pool for a later call.
C34_NoKeepAliveNoPooling ==
    [][(config # None /\ ~config[1].http_keep_alive) =>
          \A c \in Calls :
              /\ (pc[c] = "idle" /\ pc'[c] # "idle")
                    => ConnectionHeader(req'[c]) # "keep-alive"
              /\ (stream[c] # None /\ stream'[c] = None)
                    => \A p \in 1..Len(pools') : ~InQueueOf(pools'[p], stream[c][1])]_vars

\* C35: update_config returns normally and leaves a configuration in place;
\* override_config leaves the configuration it was given.
C35_ConfigCallsTakeEffect ==
    [][\A cfg \in Configs :
          /\ update_config(cfg) => (cfgcall' = Some("returned") /\ config' # None)
          /\ override_config(cfg) => config' = Some(cfg)]_vars

\* --------------------------------------------------- HyperClient (C36, C37)
\* C36: the Response HyperClient::send returns has the whole body of the
\* server's answer, in however many data frames it arrived.
C36_WholeBody ==
    (hyper.pc = "done" /\ hyper.result.kind = "response") =>
        hyper.result.body = Concat(hyper.answer.chunks)

\* C37: every header name and value of the request given to
\* HyperClient::send is on the hyper request that is sent.
C37_HeadersAreSent ==
    hyper.pc \in {"request", "response"} =>
        \A n \in DOMAIN hyper.req.headers :
            /\ n \in DOMAIN hyper.sent.headers
            /\ \A i \in 1..Len(hyper.req.headers[n]) :
                  \E j \in 1..Len(hyper.sent.headers[n]) :
                      hyper.sent.headers[n][j] = hyper.req.headers[n][i]

\* ------------------------------------------------------------ Debug (C38)
\* pool.status() as mod.rs:56-59 / 74-77 formats it: "Connections: {size},
\* Available: {available}, Max: {max_size}".
StatusEntry(p) ==
    [Connections |-> pools[p].size, Available |-> Len(pools[p].idle),
     Max |-> pools[p].max_size]

\* The entries a registry's iterator yields, in whatever order: each entry
\* with the number of Pools that show it.
StatusEntries(reg) ==
    [e \in {StatusEntry(reg[a]) : a \in DOMAIN reg} |->
        Cardinality({a \in DOMAIN reg : StatusEntry(reg[a]) = e})]

\* mod.rs:50-89 impl Debug for H1Client: the https_pools field is collected
\* from self.http_pools (mod.rs:53) when TLS is compiled in.
fmt ==
    [http_pools |-> StatusEntries(http_pools),
     https_pools |-> IF tlsFeature THEN StatusEntries(http_pools) ELSE <<>>,
     max_concurrent_connections |-> maxConns]

\* C38: the Debug output has under "http_pools" the status entries of the
\* Pools of the plaintext registry and under "https_pools" those of the
\* Pools of the TLS registry, none without TLS.
C38_DebugListsBothRegistries ==
    /\ fmt.http_pools = StatusEntries(http_pools)
    /\ fmt.https_pools = (IF tlsFeature THEN StatusEntries(https_pools) ELSE <<>>)

====
